---- MODULE Spec2Model ----
(***************************************************************************)
(* The Ngram kernel of onnxruntime/contrib_ops/cpu/ngram.cc: the           *)
(* constructor that loads the n-gram pool, the matcher ComputeImpl, the    *)
(* encoder OutputResult and the entry point Compute.                       *)
(*                                                                         *)
(* Tokens are small integers.  The int64 and the string pool have the same *)
(* structure (NgramItem<int64_t>, NgramItem<std::string>), so one token    *)
(* alphabet serves both and the kernel keeps the two sets apart, as the    *)
(* code does (int_set_, str_set_).  Weights are floats in the code; every  *)
(* weight and product of the model is a small integer, which a float holds *)
(* exactly.  size_t is 64 bits wide in the code; the running hash is kept  *)
(* to HashBits bits here (all of its arithmetic wraps at that width).      *)
(*                                                                         *)
(* The program is the NDEBUG build (assert compiles to nothing).  Where    *)
(* that build reads outside a vector the value read is a nondeterministic  *)
(* choice, and the abort of the assert-enabled build is one more outcome.  *)
(***************************************************************************)
EXTENDS Integers, Sequences, FiniteSets, TLC

VARIABLES info, kernel, inv

vars == <<info, kernel, inv>>

(***************************************************************************)
(* Bounds of the model.                                                    *)
(***************************************************************************)
\* tokens are 1..MaxToken
MaxToken == 2
\* longest vocabulary (pool_int64s / pool_strings)
MaxPool == 3
\* longest ngram_counts, hence the largest order
MaxOrder == 2
\* longest ngram_indexes
MaxIdx == 2
\* largest output bin named by ngram_indexes
MaxBin == 1
\* largest skip count S
MaxSkip == 1
\* longest input tensor
MaxLen == 3
\* width of the running hash
HashBits == 5
\* concurrent Compute invocations
MaxThreads == 2
\* largest rank of an input tensor
MaxRank == 1
\* the longest vocabulary of the encoder's kernels
MaxEncoderPool == 2
\* the longest input of a concurrent invocation
MaxSharedLen == 2

\* the low 16 bits of 0x9e3779b9 (the hash is at most 16 bits wide here)
kGolden16 == 31161

Tokens == 1..MaxToken
Threads == 1..MaxThreads

SeqsOf(S, lo, hi) == UNION {[1..n -> S] : n \in lo..hi}

RECURSIVE Pow2(_)
Pow2(n) == IF n = 0 THEN 1 ELSE 2 * Pow2(n - 1)

HashMod == Pow2(HashBits)

RECURSIVE Xor(_, _)
Xor(a, b) ==
  IF a = 0 THEN b
  ELSE IF b = 0 THEN a
  ELSE (((a % 2) + (b % 2)) % 2) + 2 * Xor(a \div 2, b \div 2)

RECURSIVE MaxOfSeq(_)
MaxOfSeq(s) ==
  IF Len(s) = 1 THEN s[1]
  ELSE LET m == MaxOfSeq(Tail(s)) IN IF s[1] > m THEN s[1] ELSE m

(***************************************************************************)
(* NgramItem: items_, hash_ and the id of NgramElementBase.                *)
(***************************************************************************)
\* std::hash<int64_t> (and, for the model's token ids, std::hash<string>)
hf(v) == v % HashMod

\* hash_ ^= hf(v) + 0x9e3779b9 + (hash_ << 6) + (hash_ >> 2);
RunningHash(hash, v) ==
  Xor(hash, (hf(v) + kGolden16 + (hash * 64) + (hash \div 4)) % HashMod)

\* AddItem: items_.push_back(v); RunningHash(v);
AddItem(sample, v) ==
  [items |-> Append(sample.items, v), hash |-> RunningHash(sample.hash, v)]

\* the default-constructed / Clear()ed sample
EmptySample == [items |-> <<>>, hash |-> 0]

RECURSIVE AddItems(_, _, _, _)
AddItems(sample, seq, first, last) ==
  IF first = last THEN sample
  ELSE AddItems(AddItem(sample, seq[first + 1]), seq, first + 1, last)

\* NgramItem(id, first, last): the items of [first, last) of seq (0-based)
NgramItem(id, seq, first, last) ==
  LET s == AddItems(EmptySample, seq, first, last)
  IN [id |-> id, items |-> s.items, hash |-> s.hash]

\* a mutant of operator==: two keys are equal when their hashes are
NgramItemEqHashOnly(a, b) == a.hash = b.hash

\* bool operator==(const NgramItem& o) const { return items_ == o.items_; }
NgramItemEq(a, b) == a.items = b.items

\* std::unordered_set looks a key up by its hash and then by operator==
KeyEq(a, b) == a.hash = b.hash /\ NgramItemEq(a, b)

\* c.emplace(...): the new element is dropped when an equal key is present
SetEmplace(c, item) ==
  IF \E e \in c : KeyEq(e, item) THEN c ELSE c \cup {item}

\* Emplace: one element per n-gram of the run, the id advancing each time
RECURSIVE Emplace(_, _, _, _, _, _)
Emplace(seq, first, ngrams, ngram_size, ngram_id, c) ==
  IF ngrams = 0 THEN [ngram_id |-> ngram_id, c |-> c]
  ELSE Emplace(seq, first + ngram_size, ngrams - 1, ngram_size, ngram_id + 1,
               SetEmplace(c, NgramItem(ngram_id, seq, first, first + ngram_size)))

(***************************************************************************)
(* Ngram::Impl and the constructor.                                        *)
(***************************************************************************)
\* struct Ngram::Impl as `new Impl` leaves it
NewImpl ==
  [weighting_criteria_ |-> "kNone", N_ |-> 0, M_ |-> 0, S_ |-> 0, all_ |-> FALSE,
   ngram_counts_ |-> <<>>, ngram_indexes_ |-> <<>>, weights_ |-> <<>>,
   pool_strings_ |-> <<>>, str_set_ |-> {}, int_set_ |-> {}, output_size_ |-> 0]

NoError == [msg |-> "", order |-> 0]

Failed(msg, order) ==
  [state |-> "failed", err |-> [msg |-> msg, order |-> order], impl |-> NewImpl]

Has(i, attr) == attr \in i.present

\* (impl_->all_ && (ngram_size >= M && ngram_size <= N)) || ngram_size == N
Retained(all, M, N, ngram_size) ==
  (all /\ ngram_size >= M /\ ngram_size <= N) \/ ngram_size = N

\* a mutant of the skipped run: the id counter is left where it was
SkipRunKeepsId(ngram_id, ngrams) == ngram_id

\* } else { ngram_id += ngrams; }
SkipRun(ngram_id, ngrams) == ngram_id + ngrams

\* the vocabulary the loop reads: pool_strings_ when given, else pool_int64s
Vocabulary(i) ==
  IF Has(i, "pool_strings") THEN i.pool_strings ELSE i.pool_int64s

\* the loop of the constructor over ngram_counts_, from its i-th round
RECURSIVE LoadRuns(_, _, _, _, _)
LoadRuns(i0, impl, i, ngram_id, set) ==
  LET counts == impl.ngram_counts_
      pool == Vocabulary(i0)
      total_items == Len(pool)
      ngram_size == i + 1
  IN
  IF i >= Len(counts)
  THEN [state |-> "ok", err |-> NoError,
        impl |-> IF impl.pool_strings_ = <<>>
                 THEN [impl EXCEPT !.int_set_ = set]
                 ELSE [impl EXCEPT !.str_set_ = set]]
  ELSE
    LET start_idx == counts[i + 1]
        end_idx == IF i + 1 < Len(counts) THEN counts[i + 2] ELSE total_items
        items == end_idx - start_idx
        ngrams == items \div ngram_size
    IN
    IF ~(end_idx >= start_idx /\ end_idx <= total_items)
    THEN Failed("n-gram counts out of bounds", ngram_size)
    ELSE IF items > 0
    THEN
      IF items % ngram_size # 0
      THEN Failed("Number of items must compose whole n-grams", ngram_size)
      ELSE IF Retained(impl.all_, impl.M_, impl.N_, ngram_size)
      THEN
        LET r == Emplace(pool, start_idx, ngrams, ngram_size, ngram_id, set)
        IN IF Cardinality(set) + ngrams = Cardinality(r.c)
           THEN LoadRuns(i0, impl, i + 1, r.ngram_id, r.c)
           ELSE Failed("duplicate n-grams detected", ngram_size)
      ELSE LoadRuns(i0, impl, i + 1, SkipRun(ngram_id, ngrams), set)
    ELSE LoadRuns(i0, impl, i + 1, ngram_id, set)

\* Ngram::Ngram(const OpKernelInfo& info): the kernel, or the failed ORT_ENFORCE
Ctor(i) ==
  IF ~Has(i, "mode") THEN Failed("mode is required", 0)
  ELSE IF i.mode \notin {"TF", "IDF", "TFIDF"} THEN Failed("Unrecognized mode", 0)
  ELSE IF ~(Has(i, "M") /\ i.M > 0) THEN Failed("Positive Attr M is required", 0)
  ELSE IF ~(Has(i, "N") /\ i.N >= i.M) THEN Failed("Positive M >= N is required", 0)
  ELSE IF ~(Has(i, "S") /\ i.N >= 0)
  THEN Failed("Non-negative number of skips S is required", 0)
  ELSE IF ~Has(i, "all") THEN Failed("Attribute all is required", 0)
  ELSE IF ~(Has(i, "ngram_counts") /\ i.ngram_counts # <<>>)
  THEN Failed("Non-empty ngram_counts is required", 0)
  ELSE IF ~(i.M <= Len(i.ngram_counts))
  THEN Failed("M must be inbounds of ngram_counts", 0)
  ELSE IF ~(i.N <= Len(i.ngram_counts))
  THEN Failed("N must be inbounds of ngram_counts", 0)
  ELSE IF ~(Has(i, "ngram_indexes") /\ i.ngram_indexes # <<>>)
  THEN Failed("Non-empty ngram_indexes is required", 0)
  ELSE IF ~(\A k \in 1..Len(i.ngram_indexes) : i.ngram_indexes[k] >= 0)
  THEN Failed("Negative ngram_indexes values are not allowed", 0)
  ELSE IF Has(i, "weights") /\ Len(i.weights) # Len(i.ngram_indexes)
  THEN Failed("weights and indexes must have equal size", 0)
  ELSE IF Has(i, "pool_strings") /\ i.pool_strings = <<>>
  THEN Failed("pool_strings must not be empty if specified", 0)
  ELSE IF ~Has(i, "pool_strings") /\ ~(Has(i, "pool_int64s") /\ i.pool_int64s # <<>>)
  THEN Failed("non-empty pool_int64s is required if pool_strings not provided", 0)
  ELSE
    LoadRuns(i,
             [NewImpl EXCEPT
                !.weighting_criteria_ = i.mode,
                !.M_ = i.M, !.N_ = i.N, !.S_ = i.S, !.all_ = (i.all # 0),
                !.ngram_counts_ = i.ngram_counts,
                !.ngram_indexes_ = i.ngram_indexes,
                !.output_size_ = MaxOfSeq(i.ngram_indexes) + 1,
                !.weights_ = IF Has(i, "weights") THEN i.weights ELSE <<>>,
                !.pool_strings_ =
                    IF Has(i, "pool_strings") THEN i.pool_strings ELSE <<>>],
             0, 0, {})


(***************************************************************************)
(* The matcher ComputeImpl, the encoder OutputResult and Compute.          *)
(* One invocation is a record: the input tensor, the locals of ComputeImpl *)
(* and the output Y.  Steps gives the invocations one loop round later.    *)
(***************************************************************************)
\* what a read past the end of ngram_indexes_ may yield: a negative value,
\* a bin of the accumulator, or an index past the accumulator
GarbageIndexes(frequencies) == -1..Len(frequencies)

\* what a read past the end of weights_ may yield
GarbageWeights == {0, 5}

\* what a read past the end of the input buffer may yield (0 is in no vocabulary)
GarbageTokens == Tokens \cup {0}

\* the outcomes of ++frequencies[output_idx] for the value read as
\* output_idx: ORT_ENFORCE throws on a negative one; one past the
\* accumulator is a write out of bounds, which stops the process or goes
\* unnoticed
Increment(output_idx, frequencies) ==
  IF output_idx < 0
  THEN {[status |-> "exception", frequencies |-> frequencies]}
  ELSE IF output_idx < Len(frequencies)
  THEN {[status |-> "running",
         frequencies |-> [frequencies EXCEPT ![output_idx + 1] = @ + 1]]}
  ELSE {[status |-> "abort", frequencies |-> frequencies],
        [status |-> "running", frequencies |-> frequencies]}

\* Impl::IncrementCount: the outcomes of one call
IncrementCount(impl, ngram_id, frequencies) ==
  IF ngram_id < Len(impl.ngram_indexes_)
  THEN Increment(impl.ngram_indexes_[ngram_id + 1], frequencies)
  ELSE UNION {Increment(g, frequencies) : g \in GarbageIndexes(frequencies)}

\* PoolEnd<T> / PoolFind<T>: int32 and int64 share int_set_, strings use str_set_
PoolOf(impl, dtype) ==
  IF dtype = "string" THEN impl.str_set_ ELSE impl.int_set_

PoolFind(impl, dtype, sample) == {e \in PoolOf(impl, dtype) : KeyEq(e, sample)}

\* hit = PoolFind(sample); if (hit != set_end) IncrementCount(hit->Id(), ...)
Lookup(impl, dtype, sample, frequencies) ==
  LET hit == PoolFind(impl, dtype, sample)
  IN IF hit = {}
     THEN {[status |-> "running", frequencies |-> frequencies]}
     ELSE UNION {IncrementCount(impl, e.id, frequencies) : e \in hit}

\* *ngram_item for the 0-based position i of the input buffer
ReadInput(st, i) ==
  IF i < Len(st.data) THEN {st.data[i + 1]} ELSE GarbageTokens

\* the values the encoder reads as w[0..n-1]
WeightReads(w, n, read) ==
  {r \in [1..n -> GarbageWeights \cup {w[k] : k \in 1..Len(w)}] :
     \A k \in 1..n :
       /\ k <= Len(w) => r[k] = w[k]
       /\ (k > Len(w) /\ ~read[k]) => r[k] = 0
       /\ (k > Len(w) /\ read[k]) => r[k] \in GarbageWeights}

\* Ngram::OutputResult: the outcomes, each with the output vector Y
OutputResult(impl, frequences) ==
  LET w == impl.weights_
      n == Len(frequences)
  IN
  IF impl.weighting_criteria_ = "TF"
  THEN {[status |-> "ok", Y |-> frequences]}
  ELSE IF impl.weighting_criteria_ = "IDF"
  THEN
    IF w # <<>>
    THEN {[status |-> "ok",
           Y |-> [k \in 1..n |-> IF frequences[k] > 0 THEN r[k] ELSE 0]] :
            r \in WeightReads(w, n, [k \in 1..n |-> frequences[k] > 0])}
    ELSE {[status |-> "ok",
           Y |-> [k \in 1..n |-> IF frequences[k] > 0 THEN 1 ELSE 0]]}
  ELSE IF impl.weighting_criteria_ = "TFIDF"
  THEN
    IF w # <<>>
    THEN {[status |-> "ok", Y |-> [k \in 1..n |-> frequences[k] * r[k]]] :
            r \in WeightReads(w, n, [k \in 1..n |-> TRUE])}
    ELSE {[status |-> "ok", Y |-> frequences]}
  ELSE {[status |-> "abort", Y |-> <<>>]}

\* one invocation of Compute that has not started
Idle ==
  [pc |-> "idle", status |-> "none", dtype |-> "", dims |-> <<>>, data |-> <<>>,
   total_items |-> 0, frequencies |-> <<>>, start_ngram_size |-> 0, si |-> 0,
   ngram_start |-> 0, ni |-> 0, ngram_item |-> 0, sample |-> EmptySample,
   Y |-> <<>>]

RECURSIVE Product(_)
Product(dims) == IF dims = <<>> THEN 1 ELSE dims[1] * Product(Tail(dims))

\* Compute: total_items of the input's shape
TotalItems(dims) ==
  IF dims = <<>> \/ (Len(dims) = 1 /\ dims[1] = 0) THEN 1 ELSE Product(dims)

\* Compute up to the first loop of ComputeImpl<T>, or its error Status
Start(impl, X) ==
  LET st == [Idle EXCEPT !.dtype = X.dtype, !.dims = X.dims, !.data = X.data,
                         !.total_items = TotalItems(X.dims)]
      start_ngram_size == IF impl.all_ THEN impl.M_ ELSE impl.N_
  IN IF X.dtype \notin {"int32", "int64", "string"}
     THEN [st EXCEPT !.pc = "done", !.status = "invalid_argument"]
     ELSE [st EXCEPT !.status = "running",
                     !.frequencies = [b \in 1..impl.output_size_ |-> 0],
                     !.start_ngram_size = start_ngram_size,
                     !.si = 1,
                     !.pc = IF start_ngram_size = 1 THEN "unigram" ELSE "stride"]

\* the invocation after a lookup with outcome o
After(st, o) ==
  IF o.status = "running"
  THEN [st EXCEPT !.frequencies = o.frequencies]
  ELSE [st EXCEPT !.pc = "done", !.status = o.status]

\* OutputResult(ctx, frequencies); return;
Finish(impl, st) ==
  {[st EXCEPT !.pc = "done", !.status = y.status, !.Y = y.Y] :
     y \in OutputResult(impl, st.frequencies)}

\* for (auto si = 1; si <= S; ++si), S being S_ + 1
StrideLoopRuns(impl, st) == st.si <= impl.S_ + 1

\* ComputeImpl: the invocations one loop round after st
Steps(impl, st) ==
  IF st.pc = "unigram"
  THEN
    IF st.ngram_start < st.total_items
    THEN UNION
      {LET sample == AddItem(EmptySample, v)
       IN {After([st EXCEPT !.sample = sample, !.ngram_start = @ + 1], o) :
             o \in Lookup(impl, st.dtype, sample, st.frequencies)} :
       v \in ReadInput(st, st.ngram_start)}
    ELSE IF st.start_ngram_size + 1 > impl.N_
    THEN Finish(impl, [st EXCEPT !.start_ngram_size = @ + 1])
    ELSE {[st EXCEPT !.start_ngram_size = @ + 1, !.si = 1, !.pc = "stride"]}
  ELSE IF st.pc = "stride"
  THEN
    IF StrideLoopRuns(impl, st)
    THEN {[st EXCEPT !.ngram_start = 0, !.pc = "start"]}
    ELSE Finish(impl, st)
  ELSE IF st.pc = "start"
  THEN
    IF /\ st.ngram_start < st.total_items
       /\ ~(st.ngram_start + st.si * (st.start_ngram_size - 1) >= st.total_items)
    THEN {[st EXCEPT !.sample = EmptySample, !.ngram_item = st.ngram_start,
                     !.ni = 1, !.pc = "grow"]}
    ELSE {[st EXCEPT !.si = @ + 1, !.pc = "stride"]}
  ELSE IF st.pc = "grow"
  THEN
    IF st.ni <= impl.N_ /\ st.ngram_item < st.total_items
    THEN UNION
      {LET sample == AddItem(st.sample, v)
           nx == [st EXCEPT !.sample = sample, !.ni = @ + 1,
                            !.ngram_item = @ + st.si]
       IN IF st.ni >= st.start_ngram_size
          THEN {After(nx, o) : o \in Lookup(impl, st.dtype, sample, st.frequencies)}
          ELSE {nx} :
       v \in ReadInput(st, st.ngram_item)}
    ELSE {[st EXCEPT !.ngram_start = @ + 1, !.pc = "start"]}
  ELSE {}

\* ComputeImpl run to its end: every invocation it may end as
RECURSIVE RunAll(_, _)
RunAll(impl, st) ==
  IF st.pc = "done" THEN {st}
  ELSE UNION {RunAll(impl, nx) : nx \in Steps(impl, st)}

(***************************************************************************)
(* The attributes a node hands to the constructor (OpKernelInfo).          *)
(***************************************************************************)
Required == {"mode", "M", "N", "S", "all", "ngram_counts", "ngram_indexes"}

\* info.GetAttr / GetAttrs succeed on the attributes of `present`
MkInfo(present, mode, M, N, S, all, counts, indexes, weights, vocab) ==
  [present |-> present, mode |-> mode, M |-> M, N |-> N, S |-> S, all |-> all,
   ngram_counts |-> counts, ngram_indexes |-> indexes,
   weights |-> IF "weights" \in present THEN weights ELSE <<>>,
   pool_strings |-> IF "pool_strings" \in present THEN vocab ELSE <<>>,
   pool_int64s |-> IF "pool_int64s" \in present /\ "pool_strings" \notin present
                   THEN vocab ELSE <<>>]

NoInfo == MkInfo({}, "", 0, 0, 0, 0, <<>>, <<>>, <<>>, <<>>)

Init ==
  /\ info = NoInfo
  /\ kernel = [state |-> "none", err |-> NoError, impl |-> NewImpl]
  /\ inv = [t \in Threads |-> Idle]

\* the session constructs the kernel once, from the node's attributes
Construct(i) ==
  /\ info' = i
  /\ kernel' = Ctor(i)
  /\ UNCHANGED inv

\* construction over every vocabulary and boundary list
ConstructVocab ==
  /\ kernel.state = "none"
  /\ \E pool \in {"pool_int64s", "pool_strings"}, M \in 0..MaxOrder,
        N \in 0..MaxOrder, all \in {0, 1},
        counts \in SeqsOf(0..MaxPool, 0, MaxOrder),
        vocab \in SeqsOf(Tokens, 0, MaxPool) :
       Construct(MkInfo(Required \cup {pool}, "TF", M, N, 0, all, counts,
                        <<0>>, <<>>, vocab))

NextCtor == ConstructVocab

SpecCtor == Init /\ [][NextCtor]_vars

(***************************************************************************)
(* The kernel at work: construction, then Compute on an input tensor.      *)
(***************************************************************************)
\* the weights an attribute list may give
WeightVals == {2, 3}

\* the input tensors: a shape, and as many elements as the shape holds
Tensors(dtypes) ==
  {[dtype |-> dtype, dims |-> dims, data |-> data] :
     dtype \in dtypes,
     dims \in {d \in SeqsOf(0..MaxLen, 0, MaxRank) : Product(d) <= MaxLen},
     data \in SeqsOf(Tokens, 0, MaxLen)} \ 
  {X \in [dtype : dtypes, dims : SeqsOf(0..MaxLen, 0, MaxRank),
          data : SeqsOf(Tokens, 0, MaxLen)] : Len(X.data) # Product(X.dims)}

\* construction over the matcher's attributes: vocabulary, orders, skips, bins
ConstructMatcher ==
  /\ kernel.state = "none"
  /\ \E M \in 1..MaxOrder, N \in 1..MaxOrder, S \in -1..MaxSkip, all \in {0, 1},
        counts \in SeqsOf(0..MaxPool, 1, MaxOrder),
        indexes \in SeqsOf(0..MaxBin, 1, MaxIdx),
        vocab \in SeqsOf(Tokens, 1, MaxPool) :
       Construct(MkInfo(Required \cup {"pool_int64s"}, "TF", M, N, S, all,
                        counts, indexes, <<>>, vocab))

\* construction over the encoder's attributes: mode, bins, weights, pool kind
ConstructEncoder ==
  /\ kernel.state = "none"
  /\ \E pool \in {"pool_int64s", "pool_strings"},
        mode \in {"TF", "IDF", "TFIDF"},
        indexes \in SeqsOf(0..MaxBin, 1, MaxIdx),
        weights \in SeqsOf(WeightVals, 0, MaxIdx),
        vocab \in SeqsOf(Tokens, 1, MaxEncoderPool) :
       Construct(MkInfo(Required \cup {pool} \cup
                          (IF weights = <<>> THEN {} ELSE {"weights"}),
                        mode, 1, 1, 0, 1, <<0>>, indexes, weights, vocab))

\* the first Compute on the kernel, run to its end
Compute ==
  /\ kernel.state = "ok"
  /\ inv[1].pc = "idle"
  /\ \E X \in Tensors({"int64", "string"}) \cup
              {[dtype |-> "float", dims |-> <<1>>, data |-> <<1>>]} :
       \E r \in RunAll(kernel.impl, Start(kernel.impl, X)) :
         inv' = [inv EXCEPT ![1] = r]
  /\ UNCHANGED <<info, kernel>>

Next == ConstructMatcher \/ ConstructEncoder \/ Compute

Spec == Init /\ [][Next]_vars

(***************************************************************************)
(* Concurrent invocations: the session runs Compute on several threads     *)
(* against the one constructed kernel, each a loop round at a time.        *)
(***************************************************************************)
\* construction of the kernel the threads share: the unigram "1" and the
\* bigram "1 2", over the orders, skips and bins
ConstructShared ==
  /\ kernel.state = "none"
  /\ \E N \in 1..MaxOrder, S \in 0..MaxSkip, indexes \in SeqsOf(0..MaxBin, 1, MaxIdx) :
       Construct(MkInfo(Required \cup {"pool_int64s"}, "TF", 1, N, S, 1,
                        <<0, 1>>, indexes, <<>>, <<1, 1, 2>>))

\* thread t enters Compute with an input tensor
StartCompute(t) ==
  /\ kernel.state = "ok"
  /\ inv[t].pc = "idle"
  /\ \E X \in {T \in Tensors({"int64"}) : Len(T.dims) = 1 /\ T.dims[1] <= MaxSharedLen} :
       inv' = [inv EXCEPT ![t] = Start(kernel.impl, X)]
  /\ UNCHANGED <<info, kernel>>

\* thread t runs one loop round of ComputeImpl
StepCompute(t) ==
  /\ inv[t].pc \notin {"idle", "done"}
  /\ \E nx \in Steps(kernel.impl, inv[t]) :
       inv' = [inv EXCEPT ![t] = nx]
  /\ UNCHANGED <<info, kernel>>

NextConc ==
  \/ ConstructShared
  \/ \E t \in Threads : StartCompute(t)
  \/ \E t \in Threads : StepCompute(t)

SpecConc == Init /\ [][NextConc]_vars

(***************************************************************************)
(* The vocabulary as the attributes describe it: the run of order k lies   *)
(* between ngram_counts[k] and ngram_counts[k+1] (or the vocabulary's end).*)
(***************************************************************************)
RunStart(i, k) == i.ngram_counts[k]

RunEnd(i, k) ==
  IF k < Len(i.ngram_counts) THEN i.ngram_counts[k + 1] ELSE Len(Vocabulary(i))

RunValid(i, k) ==
  /\ k \in 1..Len(i.ngram_counts)
  /\ RunStart(i, k) <= RunEnd(i, k)
  /\ RunEnd(i, k) <= Len(Vocabulary(i))
  /\ (RunEnd(i, k) - RunStart(i, k)) % k = 0

RunCount(i, k) == (RunEnd(i, k) - RunStart(i, k)) \div k

\* the j-th n-gram (j = 1, 2, ...) of the run of order k
RunNgram(i, k, j) ==
  [m \in 1..k |-> Vocabulary(i)[RunStart(i, k) + (j - 1) * k + m]]

RECURSIVE NgramsBefore(_, _)
NgramsBefore(i, k) ==
  IF k = 1 THEN 0 ELSE NgramsBefore(i, k - 1) + RunCount(i, k - 1)

\* the orders the attributes ask to retain
IsRetainedOrder(i, k) ==
  IF i.all # 0 THEN i.M <= k /\ k <= i.N ELSE k = i.N

HasDuplicate(i, k) ==
  /\ RunValid(i, k)
  /\ \E j1, j2 \in 1..RunCount(i, k) :
       j1 < j2 /\ RunNgram(i, k, j1) = RunNgram(i, k, j2)

Orders(i) == 1..Len(i.ngram_counts)

\* the pool of a constructed kernel, as (id, items) pairs
PoolEntries(impl) ==
  {[id |-> e.id, items |-> e.items] : e \in impl.int_set_ \cup impl.str_set_}

DuplicateError == "duplicate n-grams detected"

(***************************************************************************)
(* C2: after a successful construction the pool holds exactly the n-grams  *)
(* of the retained runs, and the id of each is the number of vocabulary    *)
(* n-grams before it over all orders, retained or not.                     *)
(***************************************************************************)
C2_PoolIsRetainedRunsWithFullIds ==
  kernel.state = "ok" =>
    PoolEntries(kernel.impl) =
      {[id |-> NgramsBefore(info, k) + (j - 1), items |-> RunNgram(info, k, j)] :
         <<k, j>> \in {kj \in Orders(info) \X (1..MaxPool) :
                         /\ IsRetainedOrder(info, kj[1])
                         /\ kj[2] <= RunCount(info, kj[1])}}

\* a retained run that follows a run that is not retained and not empty
C2_Witness ==
  /\ kernel.state = "ok"
  /\ \E k1, k2 \in Orders(info) :
       /\ k1 < k2
       /\ ~IsRetainedOrder(info, k1) /\ RunCount(info, k1) > 0
       /\ IsRetainedOrder(info, k2) /\ RunCount(info, k2) > 0

(***************************************************************************)
(* C4, as stated: construction fails whenever the vocabulary holds two     *)
(* equal n-grams of the same order, whichever order that is, and never     *)
(* fails as a duplicate unless two n-grams of one order are equal.         *)
(***************************************************************************)
C4_Original ==
  kernel.state # "none" =>
    /\ (\E k \in Orders(info) : HasDuplicate(info, k)) => kernel.state = "failed"
    /\ kernel.err.msg = DuplicateError => HasDuplicate(info, kernel.err.order)

(***************************************************************************)
(* C4, amended: construction fails whenever the vocabulary holds two equal *)
(* n-grams of the same retained order, and it fails as a duplicate only    *)
(* for two equal n-grams of one retained order (never for sequences of     *)
(* different orders, whatever their hashes).                               *)
(***************************************************************************)
C4_DuplicateInRetainedOrderFails ==
  kernel.state # "none" =>
    /\ (\E k \in Orders(info) : IsRetainedOrder(info, k) /\ HasDuplicate(info, k))
         => kernel.state = "failed"
    /\ kernel.err.msg = DuplicateError =>
         /\ HasDuplicate(info, kernel.err.order)
         /\ IsRetainedOrder(info, kernel.err.order)

\* construction failed on a duplicate of a retained order
C4_Witness ==
  /\ kernel.state = "failed"
  /\ kernel.err.msg = DuplicateError
  /\ HasDuplicate(info, kernel.err.order)

\* a kernel whose pool holds an n-gram and a longer one that starts with it,
\* the two with the same hash
C4_PrefixSameHashAccepted ==
  /\ kernel.state = "ok"
  /\ \E a, b \in kernel.impl.int_set_ \cup kernel.impl.str_set_ :
       /\ Len(a.items) < Len(b.items)
       /\ a.items = SubSeq(b.items, 1, Len(a.items))
       /\ a.hash = b.hash

(***************************************************************************)
(* What the claims say of a finished invocation.                           *)
(***************************************************************************)
Bins(impl) == 1..impl.output_size_

\* the orders the matcher is to test
TestedOrders(impl) == IF impl.all_ THEN impl.M_..impl.N_ ELSE {impl.N_}

\* the strides tried at order k
Strides(impl, k) == IF k = 1 THEN {1} ELSE 1..(impl.S_ + 1)

\* the window of order k and stride s at the 0-based start p
Window(data, p, s, k) == [m \in 1..k |-> data[p + s * (m - 1) + 1]]

\* the (order, stride, start) triples whose window is a pooled n-gram of bin b
Matches(impl, dtype, data, b) ==
  {t \in TestedOrders(impl) \X (1..(impl.S_ + 2)) \X (0..Len(data)) :
     /\ t[2] \in Strides(impl, t[1])
     /\ t[3] + t[2] * (t[1] - 1) < Len(data)
     /\ \E e \in PoolOf(impl, dtype) :
          /\ e.items = Window(data, t[3], t[2], t[1])
          /\ e.id < Len(impl.ngram_indexes_)
          /\ impl.ngram_indexes_[e.id + 1] = b - 1}

\* every read of the kernel stays inside its vector: pool ids inside
\* ngram_indexes_, bins inside weights_, positions inside the input buffer
IdsInRange(impl) ==
  \A e \in impl.int_set_ \cup impl.str_set_ : e.id < Len(impl.ngram_indexes_)

WeightsCoverBins(impl) ==
  impl.weights_ # <<>> => Len(impl.weights_) >= impl.output_size_

InputHoldsItems(st) == Len(st.data) = st.total_items

Done(st) == st.pc = "done" /\ st.status = "ok"

(***************************************************************************)
(* C1: for every accepted configuration and input, the count of bin b is   *)
(* the number of (order, stride, start) triples whose window is a pooled   *)
(* n-gram whose id maps to b.  (Stated for the inputs that hold the        *)
(* total_items elements ComputeImpl is told of.)                           *)
(***************************************************************************)
C1_CountsAreMatches ==
  (Done(inv[1]) /\ InputHoldsItems(inv[1])) =>
    \A b \in Bins(kernel.impl) :
      inv[1].frequencies[b] =
        Cardinality(Matches(kernel.impl, inv[1].dtype, inv[1].data, b))

\* the same, for the kernels and inputs whose every read is in bounds
C1_CountsAreMatchesInBounds ==
  (Done(inv[1]) /\ IdsInRange(kernel.impl) /\ InputHoldsItems(inv[1])) =>
    \A b \in Bins(kernel.impl) :
      inv[1].frequencies[b] =
        Cardinality(Matches(kernel.impl, inv[1].dtype, inv[1].data, b))

(***************************************************************************)
(* C3: every id of a pool entry is a position of ngram_indexes and maps to *)
(* one bin in [0, output_size), output_size being max(ngram_indexes) + 1.  *)
(***************************************************************************)
C3_PoolIdsIndexBins ==
  kernel.state = "ok" =>
    /\ kernel.impl.output_size_ = MaxOfSeq(kernel.impl.ngram_indexes_) + 1
    /\ \A e \in kernel.impl.int_set_ \cup kernel.impl.str_set_ :
         /\ e.id < Len(kernel.impl.ngram_indexes_)
         /\ kernel.impl.ngram_indexes_[e.id + 1] \in 0..(kernel.impl.output_size_ - 1)

(***************************************************************************)
(* C7: no kernel is constructed with a negative skip count S.              *)
(***************************************************************************)
C7_SkipIsNonNegative ==
  kernel.state = "ok" => kernel.impl.S_ >= 0

(***************************************************************************)
(* C5: the encoder's table.  TF: out = count.  IDF: out = weight if the    *)
(* count is positive, else 0 (weight 1 without weights).  TFIDF: out =     *)
(* count * weight, and out = count without weights.  (A bin whose count is *)
(* zero needs no weight: its output is 0 in either mode.)                  *)
(***************************************************************************)
C5_EncoderTable ==
  (Done(inv[1]) /\ InputHoldsItems(inv[1])) =>
    LET impl == kernel.impl
        w == impl.weights_
        count == inv[1].frequencies
        out == inv[1].Y
    IN /\ DOMAIN out = Bins(impl)
       /\ \A b \in Bins(impl) :
            IF impl.weighting_criteria_ = "TF" THEN out[b] = count[b]
            ELSE IF w = <<>>
            THEN IF impl.weighting_criteria_ = "IDF"
                 THEN out[b] = (IF count[b] > 0 THEN 1 ELSE 0)
                 ELSE out[b] = count[b]
            ELSE IF count[b] = 0 THEN out[b] = 0
            ELSE /\ b <= Len(w)
                 /\ out[b] = IF impl.weighting_criteria_ = "IDF"
                             THEN w[b] ELSE count[b] * w[b]

\* the same, for the kernels whose weights cover every bin
C5_EncoderTableInBounds ==
  WeightsCoverBins(kernel.impl) => C5_EncoderTable

(***************************************************************************)
(* C6: with weights, in IDF or TFIDF mode, the weight applied to bin b is  *)
(* the weight listed at the id of a pooled n-gram whose ngram_indexes      *)
(* entry is b.  (Stated for the kernels and inputs whose every read is in  *)
(* bounds, and for the bins whose count shows the weight.)                 *)
(***************************************************************************)
C6_WeightsFollowIds ==
  (/\ Done(inv[1])
   /\ kernel.impl.weighting_criteria_ \in {"IDF", "TFIDF"}
   /\ kernel.impl.weights_ # <<>>
   /\ IdsInRange(kernel.impl) /\ WeightsCoverBins(kernel.impl)
   /\ InputHoldsItems(inv[1])) =>
    LET impl == kernel.impl
        count == inv[1].frequencies
    IN \A b \in Bins(impl) :
         count[b] > 0 =>
           \E e \in PoolOf(impl, inv[1].dtype) :
             /\ impl.ngram_indexes_[e.id + 1] = b - 1
             /\ inv[1].Y[b] = IF impl.weighting_criteria_ = "IDF"
                              THEN impl.weights_[e.id + 1]
                              ELSE count[b] * impl.weights_[e.id + 1]

(***************************************************************************)
(* C8: with S = 0 only windows of consecutive tokens are counted, and for  *)
(* the same attributes and input no bin's count with skip S + 1 is below   *)
(* its count with skip S.                                                  *)
(***************************************************************************)
\* the finished invocations of the kernel built from attributes i on tensor X
Runs(i, X) ==
  LET k == Ctor(i) IN
  IF k.state = "ok" THEN RunAll(k.impl, Start(k.impl, X)) ELSE {}

TensorOf(st) == [dtype |-> st.dtype, dims |-> st.dims, data |-> st.data]

C8_Body ==
  LET impl == kernel.impl
      st == inv[1]
  IN /\ impl.S_ = 0 =>
          \A b \in Bins(impl) :
            st.frequencies[b] =
              Cardinality({t \in Matches(impl, st.dtype, st.data, b) : t[2] = 1})
     /\ Ctor([info EXCEPT !.S = @ + 1]).state = "ok"
     /\ \A r \in Runs([info EXCEPT !.S = @ + 1], TensorOf(st)) :
          /\ r.status = "ok"
          /\ \A b \in Bins(impl) : r.frequencies[b] >= st.frequencies[b]

C8_MoreSkipsNeverFewerHits ==
  (Done(inv[1]) /\ InputHoldsItems(inv[1])) => C8_Body

\* the same, for the kernels and inputs whose every read is in bounds
C8_MoreSkipsNeverFewerHitsInBounds ==
  (Done(inv[1]) /\ IdsInRange(kernel.impl) /\ InputHoldsItems(inv[1])) => C8_Body

(***************************************************************************)
(* C9: with all = true every bin's count is the sum, over the orders k of  *)
(* M..N, of its count in the run with all = false and N = k on the same    *)
(* vocabulary, input and S.                                                *)
(***************************************************************************)
AddVec(f, g) == [b \in DOMAIN f |-> f[b] + g[b]]

\* the sums the runs of the orders k..N alone may add up to
RECURSIVE OrderSums(_, _, _, _)
OrderSums(i, X, k, N) ==
  IF k > N THEN {[b \in 1..(MaxOfSeq(i.ngram_indexes) + 1) |-> 0]}
  ELSE {AddVec(r.frequencies, rest) :
          r \in Runs([i EXCEPT !.all = 0, !.N = k], X),
          rest \in OrderSums(i, X, k + 1, N)}

C9_Body ==
  /\ \A k \in info.M..info.N :
       /\ Ctor([info EXCEPT !.all = 0, !.N = k]).state = "ok"
       /\ \A r \in Runs([info EXCEPT !.all = 0, !.N = k], TensorOf(inv[1])) :
            r.status = "ok"
  /\ OrderSums(info, TensorOf(inv[1]), info.M, info.N) = {inv[1].frequencies}

C9_OrdersAreAdditive ==
  (Done(inv[1]) /\ kernel.impl.all_ /\ InputHoldsItems(inv[1])) => C9_Body

\* the same, for the kernels and inputs whose every read is in bounds
C9_OrdersAreAdditiveInBounds ==
  (/\ Done(inv[1]) /\ kernel.impl.all_
   /\ IdsInRange(kernel.impl)
   /\ InputHoldsItems(inv[1])) => C9_Body

(***************************************************************************)
(* C10: Compute leaves the kernel as it is, every invocation ends as it    *)
(* would when run alone, whatever the other threads do, and two            *)
(* invocations on the same input end with the same output.                 *)
(***************************************************************************)
C10_Body ==
  /\ \A t \in Threads :
       inv[t].pc = "done" =>
         RunAll(kernel.impl, Start(kernel.impl, TensorOf(inv[t]))) = {inv[t]}
  /\ \A t1, t2 \in Threads :
       (/\ inv[t1].pc = "done" /\ inv[t2].pc = "done"
        /\ TensorOf(inv[t1]) = TensorOf(inv[t2])) =>
         /\ inv[t1].status = inv[t2].status
         /\ inv[t1].Y = inv[t2].Y

C10_InvocationsAreIndependent ==
  /\ kernel.state # "none" => kernel = Ctor(info)
  /\ C10_Body

\* the same, for the kernels and inputs whose every read is in bounds
C10_InvocationsAreIndependentInBounds ==
  /\ kernel.state # "none" => kernel = Ctor(info)
  /\ (/\ IdsInRange(kernel.impl)
      /\ \A t \in Threads : inv[t].pc # "idle" => InputHoldsItems(inv[t]))
       => C10_Body

(***************************************************************************)
(* C11: for every accepted configuration with weights, whenever            *)
(* OutputResult has run in IDF or TFIDF mode the weight vector is as long  *)
(* as the accumulator (max(ngram_indexes) + 1 bins), so the assertion      *)
(* frequences.size() == w.size() holds and every w[i] read is inside the   *)
(* weight vector.                                                          *)
(***************************************************************************)
C11_WeightsAsLongAsBins ==
  (/\ Done(inv[1])
   /\ kernel.impl.weighting_criteria_ \in {"IDF", "TFIDF"}
   /\ kernel.impl.weights_ # <<>>) =>
    /\ Len(inv[1].frequencies) = MaxOfSeq(kernel.impl.ngram_indexes_) + 1
    /\ Len(kernel.impl.weights_) = Len(inv[1].frequencies)
    /\ \A b \in 1..Len(inv[1].frequencies) : b <= Len(kernel.impl.weights_)

\* what the constructor does establish: the weights are as many as the
\* entries of ngram_indexes, and the accumulator has max(ngram_indexes) + 1 bins
C11_WeightsAsLongAsIndexes ==
  (/\ Done(inv[1])
   /\ kernel.impl.weighting_criteria_ \in {"IDF", "TFIDF"}
   /\ kernel.impl.weights_ # <<>>) =>
    /\ Len(inv[1].frequencies) = MaxOfSeq(kernel.impl.ngram_indexes_) + 1
    /\ Len(kernel.impl.weights_) = Len(kernel.impl.ngram_indexes_)

====
